---- MODULE Spec2Model ----
(***************************************************************************)
(* Scene search and reduction of the satellite change-detection viewer.    *)
(*                                                                         *)
(* One call of a search function of services/stacService is modelled as a  *)
(* small state machine: the request is sent (Search), the catalog answers  *)
(* or fails (FetchRejects, ResponseNotOk, ResponseOk), the body is parsed  *)
(* (JsonRejects, BodyParsed) and reduced synchronously (Reduce).  The body *)
(* the catalog answers with is drawn from bounded sets.                    *)
(*                                                                         *)
(* Time is measured in units of 1/DayUnits of a day, coordinates in units  *)
(* of half the query buffer (0.025 degree).  Items are referred to by      *)
(* their position in data.features, which stands for the object identity   *)
(* of the raw feature.                                                     *)
(***************************************************************************)
EXTENDS Integers, Sequences, FiniteSets, TLC

VARIABLES
    variant,            \* which search function runs
    bbox,               \* the AOI argument
    targetDate,         \* the targetDate argument
    maxCandidates,      \* maxCandidatesPerTile / PerPathRow / PerOrbit
    data,               \* the body the catalog answers with
    response,           \* how the request went, as far as it got
    pc,                 \* position of the async function
    searchBody,         \* the request that was sent (its intersects ring)
    ranked,             \* per group key: candidates after the sort
    allCandidateItems,  \* after the per-group truncation
    intersectingItems,  \* after the AOI-intersection filter
    containingAOI,      \* tilesContainingAOI / scenesContainingAOI
    finalItems,         \* after the containment short-circuit
    stacItems,          \* the packaged scenes
    outcome,            \* "pending", "null", "items" or "error"
    call,               \* a helper function applied on its own: name and arguments
    ret,                \* what that application returned
    currentAOI,         \* SatelliteComparisonApp.currentAOI: 0 is null, else the drawing
    drawings,           \* how many areas were drawn or edited so far
    layerPanel,         \* LayerPanel.layers, topmost first
    layers,             \* LayerManager.layers: the ids it manages
    mapLayers,          \* ids of the leaflet layers on the map
    stacking,           \* zIndex and visible of each managed layer, by id
    expandedGroups,     \* LayerPanel.expandedGroups
    message,            \* the status line of the control panel
    loadingOverlay,     \* whether the loading overlay is shown
    searches,           \* the activations of handleSearch, in start order
    cache,              \* caches.default of the tile proxy: the URLs it holds
    invocations,        \* the invocations of the proxy's fetch handler, in arrival order
    selector            \* the SceneSelector and what its onConfirm handed to loadScenes

searchVars == <<variant, bbox, targetDate, maxCandidates, data, response, pc, searchBody,
                ranked, allCandidateItems, intersectingItems, containingAOI, finalItems,
                stacItems, outcome>>

helperVars == <<call, ret>>

viewerVars == <<currentAOI, drawings, layerPanel, layers, mapLayers, stacking,
                expandedGroups, message, loadingOverlay, searches>>

proxyVars == <<cache, invocations>>

selectorVars == <<selector>>

vars == <<searchVars, helperVars, viewerVars, proxyVars, selectorVars>>

(***************************************************************************)
(* Bounds and units                                                        *)
(***************************************************************************)
MaxFeatures == 3        \* longest catalog answer considered

DayUnits == 2           \* time units per day (a unit is 12 hours)

DefaultMaxCandidates == 6

MosaicBuffer == 2       \* 0.05 degree; a coordinate unit is 0.025 degree

NaN == -1               \* getTime() of an Invalid Date, and what is computed from it

MosaicVariants == {"S2Mosaic", "LandsatMosaic", "S1Mosaic"}

SingleVariants == {"S2Single", "LandsatSingle"}

Variants == MosaicVariants \cup SingleVariants

(***************************************************************************)
(* Geometry and time helpers                                               *)
(***************************************************************************)
Box(w, s, e, n) == [west |-> w, south |-> s, east |-> e, north |-> n]

bboxToGeometryInward(b, bufferDegrees) ==
    << <<b.west + bufferDegrees, b.south + bufferDegrees>>,
       <<b.east - bufferDegrees, b.south + bufferDegrees>>,
       <<b.east - bufferDegrees, b.north - bufferDegrees>>,
       <<b.west + bufferDegrees, b.north - bufferDegrees>>,
       <<b.west + bufferDegrees, b.south + bufferDegrees>> >>

bboxToGeometry(b, bufferDegrees) ==
    << <<b.west - bufferDegrees, b.south - bufferDegrees>>,
       <<b.east + bufferDegrees, b.south - bufferDegrees>>,
       <<b.east + bufferDegrees, b.north + bufferDegrees>>,
       <<b.west - bufferDegrees, b.north + bufferDegrees>>,
       <<b.west - bufferDegrees, b.south - bufferDegrees>> >>

bboxesIntersectTouching(bbox1, bbox2) ==
    /\ bbox1.west <= bbox2.east
    /\ bbox1.east >= bbox2.west
    /\ bbox1.south <= bbox2.north
    /\ bbox1.north >= bbox2.south

bboxesIntersect(bbox1, bbox2) ==
    /\ bbox1.west < bbox2.east
    /\ bbox1.east > bbox2.west
    /\ bbox1.south < bbox2.north
    /\ bbox1.north > bbox2.south

bboxContainsStrictly(bbox1, bbox2) ==
    /\ bbox1.west < bbox2.west
    /\ bbox1.east > bbox2.east
    /\ bbox1.south < bbox2.south
    /\ bbox1.north > bbox2.north

bboxContains(bbox1, bbox2) ==
    /\ bbox1.west <= bbox2.west
    /\ bbox1.east >= bbox2.east
    /\ bbox1.south <= bbox2.south
    /\ bbox1.north >= bbox2.north

dateDiffDaysSigned(date1, date2) ==
    IF date1 = NaN \/ date2 = NaN THEN NaN ELSE date1 - date2

dateDiffDays(date1, date2) ==
    IF date1 = NaN \/ date2 = NaN THEN NaN
    ELSE IF date1 >= date2 THEN date1 - date2 ELSE date2 - date1

\* new Date(x).toISOString().split('T')[0]: the UTC calendar day
IsoDate(t) == t \div DayUnits

\* JavaScript's < on numbers: false as soon as one side is NaN
JsLess(x, y) == x # NaN /\ y # NaN /\ x < y

(***************************************************************************)
(* Raw features                                                            *)
(***************************************************************************)
Features == data.features

Item(i) == Features[i]

\* new Date(item.properties.datetime).getTime()
ItemTime(i) == IF Item(i).hasDatetime THEN Item(i).t ELSE NaN

DaysDiff(i) == dateDiffDays(ItemTime(i), targetDate)

ItemDate(i) == IsoDate(Item(i).t)

Range(s) == {s[i] : i \in DOMAIN s}

Indices(n) == [i \in 1..n |-> i]

(***************************************************************************)
(* Array.prototype.sort                                                    *)
(*                                                                         *)
(* With a consistent comparator the result is the stable sorted order.     *)
(* With an inconsistent one ECMAScript leaves the order implementation-    *)
(* defined: every permutation is a possible outcome.  A comparator result  *)
(* of NaN counts as +0.                                                    *)
(***************************************************************************)
PermutationTable ==
    [n \in 0..(MaxFeatures + 1) |->
        {p \in [1..n -> 1..n] : \A i, j \in 1..n : i # j => p[i] # p[j]}]

Perms(n) == PermutationTable[n]

\* m[a, b] is the comparator's result on the elements at positions a and b
ConsistentComparator(m, n) ==
    /\ \A a \in 1..n : m[a, a] = 0
    /\ \A a, b \in 1..n : (m[a, b] < 0) <=> (m[b, a] > 0)
    /\ \A a, b, c \in 1..n : m[a, b] = 0 /\ m[b, c] = 0 => m[a, c] = 0
    /\ \A a, b, c \in 1..n : m[a, b] < 0 /\ m[b, c] < 0 => m[a, c] < 0

\* the stable sorted order: an element goes behind those that compare lower
\* and behind the earlier ones that compare equal
StableSort(s, m) ==
    LET n == Len(s)
        rank == [j \in 1..n |-> 1 + Cardinality({h \in 1..n :
                        \/ m[h, j] < 0
                        \/ m[h, j] = 0 /\ h < j})]
    IN  [i \in 1..n |-> s[CHOOSE j \in 1..n : rank[j] = i]]

SortOutcomes(s, m) ==
    IF ConsistentComparator(m, Len(s)) THEN {StableSort(s, m)}
    ELSE {[i \in 1..Len(s) |-> s[p[i]]] : p \in Perms(Len(s))}

ArraySort(s, m) ==
    IF Len(s) <= 1 THEN {s} ELSE SortOutcomes(s, m)

(***************************************************************************)
(* Stage A: grouping, ranking, truncation                                  *)
(***************************************************************************)
\* the group key of a raw feature: MGRS tile id taken from the item id,
\* WRS-2 path/row, relative orbit; 0 stands for a missing path/row or orbit
GroupKey(i) == Item(i).key

\* the features that enter the grouping loop and are not skipped by it
GroupedItems(v, items) ==
    IF v = "S2Mosaic" THEN items
    ELSE SelectSeq(items, LAMBDA i : GroupKey(i) # 0)

\* a variant that lists the key of every item, repeated keys included
KeyOrderPerItem(items) == [j \in 1..Len(items) |-> GroupKey(items[j])]

\* keys of a Map in insertion order
KeyOrder(items) ==
    LET firsts == SelectSeq(Indices(Len(items)),
                         LAMBDA j : \A h \in 1..(j - 1) :
                                        GroupKey(items[h]) # GroupKey(items[j]))
    IN  [j \in 1..Len(firsts) |-> GroupKey(items[firsts[j]])]

GroupOf(items, k) == SelectSeq(items, LAMBDA i : GroupKey(i) = k)

compareCandidates(v, a, b) ==
    IF DaysDiff(a) = NaN \/ DaysDiff(b) = NaN THEN 0
    ELSE LET dateDiff == DaysDiff(a) - DaysDiff(b) IN
         IF v = "S1Mosaic" THEN dateDiff
         ELSE IF (IF dateDiff < 0 THEN -dateDiff ELSE dateDiff) < DayUnits
              THEN Item(a).cloud - Item(b).cloud
              ELSE dateDiff

\* candidates.sort(comparator): the comparator's values on the candidates
CandidateOrders(v, s) ==
    UNION {ArraySort(s, m) :
            m \in {[a \in 1..Len(s), b \in 1..Len(s) |->
                        compareCandidates(v, s[a], s[b])]}}

\* the possible contents of tileMap / pathRowMap / orbitMap after the sorts
\* one sort outcome for every key
OnePerKey(outcomes) ==
    {r \in [DOMAIN outcomes -> UNION {outcomes[k] : k \in DOMAIN outcomes}] :
        \A k \in DOMAIN outcomes : r[k] \in outcomes[k]}

Rankings(v, items) ==
    UNION {OnePerKey(outcomes) :
            outcomes \in {[k \in Range(KeyOrder(items)) |->
                            CandidateOrders(v, GroupOf(items, k))]}}

\* the mutant of topCandidates that forgets the slice
allCandidates(candidates, n) == candidates

topCandidates(candidates, n) ==
    SubSeq(candidates, 1, IF Len(candidates) < n THEN Len(candidates) ELSE n)

RECURSIVE PushAll(_, _, _)
PushAll(keys, rk, n) ==
    IF keys = <<>> THEN <<>>
    ELSE topCandidates(rk[Head(keys)], n) \o PushAll(Tail(keys), rk, n)

(***************************************************************************)
(* Stages B, C, D and packaging                                            *)
(***************************************************************************)
IntersectsAOI(i) == bboxesIntersect(bbox, Item(i).bbox)

ContainsAOI(i) == bboxContains(Item(i).bbox, bbox)

\* keys of byDate in insertion order, as positions of their first item
FirstOfDates(items) ==
    SelectSeq(Indices(Len(items)),
           LAMBDA j : \A h \in 1..(j - 1) : ItemDate(items[h]) # ItemDate(items[j]))

compareCloud(a, b) == Item(a).cloud - Item(b).cloud

\* items.sort(by cloud cover)[0] for the optical sensors, items[0] for SAR
BestOfDate(v, items) ==
    IF v = "S1Mosaic" THEN items[1]
    ELSE (CHOOSE r \in ArraySort(items,
                [a \in 1..Len(items), b \in 1..Len(items) |->
                    compareCloud(items[a], items[b])]) : TRUE)[1]

\* the mutant of OnePerDate that keeps every containing scene
OnePerDateKeepAll(v, containing) == containing

OnePerDate(v, containing) ==
    LET firsts == FirstOfDates(containing)
    IN  [j \in 1..Len(firsts) |->
            BestOfDate(v, SelectSeq(containing,
                LAMBDA i : ItemDate(i) = ItemDate(containing[firsts[j]])))]

\* the conversion loop: Sentinel-2 skips an item without a visual asset;
\* Sentinel-1 pushes every item, with renderingInfo.assets = [] when the item
\* has none of vv, vh, hh, hv; Landsat pushes every item
Package(v, items) ==
    IF v \in {"S2Mosaic"} THEN SelectSeq(items, LAMBDA i : Item(i).visual)
    ELSE items

\* the closest-item loop: strict <, so the first of the minima, and an
\* Invalid Date first item is never replaced
RECURSIVE ClosestLoop(_, _, _)
ClosestLoop(items, k, best) ==
    IF k > Len(items) THEN best
    ELSE IF JsLess(DaysDiff(items[k]), DaysDiff(best))
         THEN ClosestLoop(items, k + 1, items[k])
         ELSE ClosestLoop(items, k + 1, best)

closestItem(items) == ClosestLoop(items, 1, items[1])

(***************************************************************************)
(* The synchronous part of a search, after `await response.json()`         *)
(***************************************************************************)
Blank == [ranked |-> <<>>, all |-> <<>>, inter |-> <<>>, cont |-> <<>>,
          final |-> <<>>, stac |-> <<>>, out |-> "null", thrown |-> "none"]

Throw(r, what) == [r EXCEPT !.out = "error", !.thrown = what]

\* the features the grouping works on: Sentinel-1 filters by mode and polarization
MosaicInput(v) ==
    IF v = "S1Mosaic"
    THEN SelectSeq(Indices(Len(Features)), LAMBDA i : Item(i).sarOk)
    ELSE Indices(Len(Features))

\* the mutant of NoFeatures that forgets the length test
NoFeaturesField == ~data.hasFeatures

\* !data.features || data.features.length === 0
NoFeatures == ~data.hasFeatures \/ Len(Features) = 0

\* what happens before the grouping: "go", or the result the function ends with
BeforeGrouping(v) ==
    IF NoFeatures THEN Blank
    ELSE IF MosaicInput(v) = <<>>
         THEN IF v = "S1Mosaic" THEN Blank ELSE Throw(Blank, "TypeError")
    ELSE IF v = "S2Mosaic" /\ \E i \in 1..Len(Features) : ~Item(i).hasDatetime
         THEN Throw(Blank, "RangeError")
    ELSE IF ~Item(MosaicInput(v)[1]).hasDatetime
         THEN Throw(Blank, "RangeError")
    ELSE [Blank EXCEPT !.out = "go"]

MosaicStages(v, rk) ==
    LET grouped == GroupedItems(v, MosaicInput(v))
        all     == PushAll(KeyOrder(grouped), rk, maxCandidates)
        inter   == SelectSeq(all, IntersectsAOI)
        cont    == SelectSeq(inter, ContainsAOI)
        final   == IF cont # <<>> THEN OnePerDate(v, cont) ELSE inter
        stac    == Package(v, final)
        r1      == [Blank EXCEPT !.ranked = rk, !.all = all]
        r2      == [r1 EXCEPT !.inter = inter]
        r3      == [r2 EXCEPT !.cont = cont]
        r4      == [r3 EXCEPT !.final = final]
    IN  IF \E i \in Range(all) : ~Item(i).hasBbox THEN Throw(r1, "TypeError")
        ELSE IF v # "S2Mosaic" /\ inter = <<>> THEN r2
        ELSE IF \E i \in Range(cont) : ~Item(i).hasDatetime
             THEN Throw(r3, "RangeError")
        ELSE IF \E i \in Range(final) : ~Item(i).hasDatetime
             THEN Throw(r4, "RangeError")
        ELSE [r4 EXCEPT !.stac = stac,
                        !.out = IF stac = <<>> THEN "null" ELSE "items"]

\* the possible results of a mosaic search on the parsed body
MosaicResults(v) ==
    IF BeforeGrouping(v).out # "go" THEN {BeforeGrouping(v)}
    ELSE {MosaicStages(v, rk) : rk \in Rankings(v, GroupedItems(v, MosaicInput(v)))}

\* searchSentinel2 and searchLandsat: one scene, the closest intersecting one
SingleResult(v) ==
    LET n     == Len(Features)
        inter == SelectSeq(Indices(n), IntersectsAOI)
        best  == closestItem(inter)
        r2    == [Blank EXCEPT !.inter = inter]
        r4    == [r2 EXCEPT !.final = <<best>>]
    IN  IF NoFeatures THEN Blank
        ELSE IF \E i \in 1..n : ~Item(i).hasBbox THEN Throw(Blank, "TypeError")
        ELSE IF inter = <<>> THEN r2
        ELSE IF v = "S2Single" /\ ~Item(best).visual THEN r4
        ELSE [r4 EXCEPT !.stac = <<best>>, !.out = "items"]

SearchResults(v) ==
    IF v \in MosaicVariants THEN MosaicResults(v) ELSE {SingleResult(v)}

(***************************************************************************)
(* Actions                                                                 *)
(***************************************************************************)
locals == <<ranked, allCandidateItems, intersectingItems, containingAOI,
            finalItems, stacItems>>

args == <<variant, bbox, targetDate, maxCandidates>>

Pending == [out |-> "pending", thrown |-> "none"]

Failed(what) == [out |-> "error", thrown |-> what]

\* the mutant of AfterFetch that never looks at response.ok
AfterFetchIgnoringStatus(resp) ==
    IF resp = "transport error"
    THEN [pc |-> "rejected", outcome |-> Failed("fetch failed")]
    ELSE [pc |-> "parsing", outcome |-> Pending]

\* what the function does once fetch has settled: a rejected fetch lands in
\* the catch block, which rethrows; !response.ok throws; else response.json()
AfterFetch(resp) ==
    IF resp = "transport error"
    THEN [pc |-> "rejected", outcome |-> Failed("fetch failed")]
    ELSE IF resp = "not ok"
    THEN [pc |-> "rejected", outcome |-> Failed("STAC API error")]
    ELSE [pc |-> "parsing", outcome |-> Pending]

\* the call up to `await fetch(...)`
Search ==
    /\ pc = "idle"
    /\ pc' = "fetching"
    /\ searchBody' = [intersects |->
                        bboxToGeometry(bbox, IF variant \in MosaicVariants
                                             THEN MosaicBuffer ELSE 0)]
    /\ UNCHANGED <<args, data, response, locals, outcome>>
    /\ UNCHANGED <<helperVars, viewerVars, proxyVars, selectorVars>>

FetchSettles(resp) ==
    /\ pc = "fetching"
    /\ response' = resp
    /\ pc' = AfterFetch(resp).pc
    /\ outcome' = AfterFetch(resp).outcome
    /\ UNCHANGED <<args, data, locals, searchBody>>
    /\ UNCHANGED <<helperVars, viewerVars, proxyVars, selectorVars>>

\* fetch rejects: no answer from the backend
FetchRejects == FetchSettles("transport error")

\* the backend answers with a non-success status
ResponseNotOk == FetchSettles("not ok")

\* the backend answers with a success status
ResponseOk == FetchSettles("ok")

\* response.json() rejects: the body is not JSON
JsonRejects ==
    /\ pc = "parsing"
    /\ pc' = "rejected"
    /\ response' = "bad json"
    /\ outcome' = Failed("SyntaxError")
    /\ UNCHANGED <<args, data, locals, searchBody>>
    /\ UNCHANGED <<helperVars, viewerVars, proxyVars, selectorVars>>

\* the body `d` of the answer has arrived and parses: response.json() resolves
BodyParsed(d) ==
    /\ pc = "parsing"
    /\ pc' = "parsed"
    /\ response' = "json"
    /\ data' = d
    /\ UNCHANGED <<args, locals, searchBody, outcome>>
    /\ UNCHANGED <<helperVars, viewerVars, proxyVars, selectorVars>>

\* the continuation after `await response.json()`: everything up to the
\* return or the rethrow, with no other await in between
Reduce ==
    /\ pc = "parsed"
    /\ \E r \in SearchResults(variant) :
        /\ ranked' = r.ranked
        /\ allCandidateItems' = r.all
        /\ intersectingItems' = r.inter
        /\ containingAOI' = r.cont
        /\ finalItems' = r.final
        /\ stacItems' = r.stac
        /\ outcome' = [out |-> r.out, thrown |-> r.thrown]
        /\ pc' = IF r.out = "error" THEN "rejected" ELSE "resolved"
    /\ UNCHANGED <<args, data, response, searchBody>>
    /\ UNCHANGED <<helperVars, viewerVars, proxyVars, selectorVars>>

\* one search call whose catalog answer, if one arrives, is drawn from A
NextWith(A) ==
    \/ Search
    \/ FetchRejects
    \/ ResponseNotOk
    \/ ResponseOk
    \/ JsonRejects
    \/ pc = "parsing" /\ \E d \in A : BodyParsed(d)
    \/ Reduce

(***************************************************************************)
(* Initial states and the answers of the catalog                           *)
(***************************************************************************)
AOI == Box(4, 4, 8, 8)

\* scene footprints around the AOI
Cover      == Box(0, 0, 12, 12)   \* contains the AOI
WestPart   == Box(0, 0, 6, 12)    \* overlaps its west half
EastPart   == Box(6, 0, 12, 12)   \* overlaps its east half
Touching   == Box(8, 0, 12, 12)   \* shares the AOI's east edge
BufferOnly == Box(9, 0, 12, 12)   \* overlaps the buffered query ring only

\* visual: item.assets holds what rendering reads, the `visual` asset of a
\* Sentinel-2 item, one of vv, vh, hh, hv of a Sentinel-1 item
Scenes(Keys, Times, Clouds, Boxes, Visuals, Wellformed) ==
    [key : Keys, t : Times, cloud : Clouds, bbox : Boxes, visual : Visuals,
     hasDatetime : Wellformed, hasBbox : Wellformed, sarOk : {TRUE}]

\* sortby properties.datetime desc; a record without datetime may sit anywhere
SortedDesc(f) ==
    \A i, j \in DOMAIN f :
        i < j /\ f[i].hasDatetime /\ f[j].hasDatetime => f[i].t >= f[j].t

FeatureLists(S, n) ==
    {f \in UNION {[1..m -> S] : m \in 0..n} : SortedDesc(f)}

NoBody == [hasFeatures |-> FALSE, features |-> <<>>]

Bodies(S, n) ==
    {NoBody} \cup {[hasFeatures |-> TRUE, features |-> f] : f \in FeatureLists(S, n)}

SearchNotCalled(Vs, Targets, Maxes) ==
    /\ variant \in Vs
    /\ bbox = AOI
    /\ targetDate \in Targets
    /\ maxCandidates \in Maxes
    /\ data = NoBody
    /\ response = "none"
    /\ pc = "idle"
    /\ searchBody = [intersects |-> <<>>]
    /\ ranked = <<>>
    /\ allCandidateItems = <<>>
    /\ intersectingItems = <<>>
    /\ containingAOI = <<>>
    /\ finalItems = <<>>
    /\ stacItems = <<>>
    /\ outcome = Pending

\* no helper function was applied on its own
NoReturn == [done |-> FALSE, value |-> 0]

\* no scene selector has been shown
NoSelector == [pc |-> "none", allBeforeScenes |-> <<>>, allAfterScenes |-> <<>>,
               selectedScenes |-> <<>>, selectedBefore |-> <<>>, selectedAfter |-> <<>>]

NothingApplied == call = [fn |-> "none", a |-> 0, b |-> 0] /\ ret = NoReturn

\* the viewer right after the constructor of SatelliteComparisonApp
ViewerConstructed ==
    /\ currentAOI = 0
    /\ drawings = 0
    /\ layerPanel = <<>>
    /\ layers = {}
    /\ mapLayers = {}
    /\ stacking = <<>>
    /\ expandedGroups = {}
    /\ message = "none"
    /\ loadingOverlay = FALSE
    /\ searches = <<>>

InitWith(Vs, Targets, Maxes) ==
    /\ SearchNotCalled(Vs, Targets, Maxes)
    /\ NothingApplied
    /\ ViewerConstructed
    /\ cache = {} /\ invocations = <<>> /\ selector = NoSelector

(***************************************************************************)
(* Spec: every search function; two groups, two dates, every footprint     *)
(***************************************************************************)
GeoAnswers ==
    Bodies(Scenes({1, 2}, {0, DayUnits}, {0},
                  {Cover, WestPart, Touching, BufferOnly}, {TRUE}, {TRUE}),
           MaxFeatures)

Init == InitWith(Variants, {0}, {DefaultMaxCandidates})

Next == NextWith(GeoAnswers)

Spec == Init /\ [][Next]_vars

(***************************************************************************)
(* SpecGroups: the mosaic searches on two groups of one date with          *)
(* footprints on either side of the AOI, called with the default candidate *)
(* limit and with a limit of one                                           *)
(***************************************************************************)
CandidateLimits == {1, DefaultMaxCandidates}

GroupAnswers ==
    Bodies(Scenes({1, 2}, {0}, {0, 1}, {Cover, WestPart, EastPart, Touching},
                  {TRUE}, {TRUE}),
           MaxFeatures)

InitGroups == InitWith(MosaicVariants, {0}, CandidateLimits)

NextGroups == NextWith(GroupAnswers)

SpecGroups == InitGroups /\ [][NextGroups]_vars

(***************************************************************************)
(* SpecRank: the mosaic searches on one group whose scenes lie half a day  *)
(* apart and differ in cloud cover, around two target dates                *)
(***************************************************************************)
RankAnswers ==
    Bodies(Scenes({1}, 0..3, {0, 1}, {WestPart}, {TRUE}, {TRUE}), MaxFeatures)

InitRank == InitWith(MosaicVariants, {0, 2}, {DefaultMaxCandidates})

NextRank == NextWith(RankAnswers)

SpecRank == InitRank /\ [][NextRank]_vars

(***************************************************************************)
(* SpecDates: the mosaic searches on two groups whose scenes share a UTC   *)
(* date or lie on the next one                                             *)
(***************************************************************************)
DateAnswers ==
    Bodies(Scenes({1, 2}, 0..DayUnits, {0, 1}, {Cover, WestPart}, {TRUE}, {TRUE}),
           MaxFeatures)

InitDates == InitWith(MosaicVariants, {0}, {DefaultMaxCandidates})

NextDates == NextWith(DateAnswers)

SpecDates == InitDates /\ [][NextDates]_vars

(***************************************************************************)
(* SpecMalformed: every search function on records that may lack bbox,     *)
(* properties.datetime or the grouping property                            *)
(***************************************************************************)
MalformedAnswers ==
    Bodies(Scenes({0, 1}, {0}, {0}, {Cover, BufferOnly}, {TRUE}, {TRUE, FALSE}),
           MaxFeatures)

InitMalformed == InitWith(Variants, {0}, {DefaultMaxCandidates})

NextMalformed == NextWith(MalformedAnswers)

SpecMalformed == InitMalformed /\ [][NextMalformed]_vars

(***************************************************************************)
(* SpecAssets: the Sentinel-2 and Sentinel-1 mosaic searches on scenes of  *)
(* one date, with and without the asset that rendering reads.              *)
(***************************************************************************)
AssetAnswers ==
    Bodies(Scenes({1, 2}, {0}, {0}, {Cover, WestPart, EastPart}, {TRUE, FALSE}, {TRUE}),
           MaxFeatures)

InitAssets == InitWith({"S2Mosaic", "S1Mosaic"}, {0}, {DefaultMaxCandidates})

NextAssets == NextWith(AssetAnswers)

SpecAssets == InitAssets /\ [][NextAssets]_vars

(***************************************************************************)
(* SpecHelpers: the geometry and time helpers and the combined bounds of   *)
(* the layer manager, each applied once to arguments from a small grid.    *)
(***************************************************************************)
MaxCoord == 2           \* box coordinates range over 0..MaxCoord
MaxBuffer == 2          \* bufferDegrees ranges over 0..MaxBuffer
MaxTime == 4            \* instants range over 0..MaxTime
MaxScenes == 3          \* longest scene list handed to the layer manager

Min(x, y) == IF x <= y THEN x ELSE y

Max(x, y) == IF x >= y THEN x ELSE y

RECURSIVE CombinedLoop(_, _, _)
CombinedLoop(items, k, acc) ==
    IF k > Len(items) THEN acc
    ELSE CombinedLoop(items, k + 1,
             [west  |-> Min(acc.west, items[k].bounds.west),
              east  |-> Max(acc.east, items[k].bounds.east),
              south |-> Min(acc.south, items[k].bounds.south),
              north |-> Max(acc.north, items[k].bounds.north)])

calculateCombinedBoundsOfFirst(items) == items[1].bounds

calculateCombinedBounds(items) == CombinedLoop(items, 1, items[1].bounds)

\* any four numbers typed as a BBox, ordered or not
AnyBoxes ==
    {Box(w, s, e, n) : w \in 0..MaxCoord, s \in 0..MaxCoord,
                       e \in 0..MaxCoord, n \in 0..MaxCoord}

\* footprints of scenes: overlapping, nested, apart, and differing on each side
Footprints ==
    {Box(0, 0, 2, 2), Box(1, 1, 3, 3), Box(0, 2, 1, 4), Box(2, 0, 4, 1), Box(1, 1, 2, 2)}

SceneLists ==
    UNION {[1..n -> {[bounds |-> b] : b \in Footprints}] : n \in 1..MaxScenes}

Return(v) ==
    /\ ~ret.done
    /\ ret' = [done |-> TRUE, value |-> v]
    /\ UNCHANGED <<call, searchVars, viewerVars, proxyVars, selectorVars>>

ApplyIntersect == call.fn = "bboxesIntersect" /\ Return(bboxesIntersect(call.a, call.b))

ApplyContains == call.fn = "bboxContains" /\ Return(bboxContains(call.a, call.b))

ApplyGeometry == call.fn = "bboxToGeometry" /\ Return(bboxToGeometry(call.a, call.b))

ApplyDateDiff == call.fn = "dateDiffDays" /\ Return(dateDiffDays(call.a, call.b))

ApplyCombinedBounds ==
    call.fn = "calculateCombinedBounds" /\ Return(calculateCombinedBounds(call.a))

InitHelpers ==
    /\ SearchNotCalled({"S2Mosaic"}, {0}, {DefaultMaxCandidates})
    /\ ViewerConstructed
    /\ cache = {} /\ invocations = <<>> /\ selector = NoSelector
    /\ \/ \E f \in {"bboxesIntersect", "bboxContains"}, x \in AnyBoxes, y \in AnyBoxes :
              call = [fn |-> f, a |-> x, b |-> y]
       \/ \E x \in AnyBoxes, y \in 0..MaxBuffer :
              call = [fn |-> "bboxToGeometry", a |-> x, b |-> y]
       \/ \E x \in 0..MaxTime, y \in 0..MaxTime :
              call = [fn |-> "dateDiffDays", a |-> x, b |-> y]
       \/ \E x \in SceneLists :
              call = [fn |-> "calculateCombinedBounds", a |-> x, b |-> 0]
    /\ ret = NoReturn

NextHelpers ==
    \/ ApplyIntersect
    \/ ApplyContains
    \/ ApplyGeometry
    \/ ApplyDateDiff
    \/ ApplyCombinedBounds

SpecHelpers == InitHelpers /\ [][NextHelpers]_vars

(***************************************************************************)
(* SpecDescriptor: the Mosaic Descriptor Builder, build(selectedScenes,    *)
(* sensorId).  services/mosaicService is imported by the layer manager but *)
(* its source is not part of the tree, so the builder follows its written  *)
(* contract: envelope of the bounds, scenes sorted by datetime ascending,  *)
(* the string (sensorId, datetimes, bounds rounded to 4 decimals, render   *)
(* tag) and a 32-bit rolling hash of it.  Bounds are in 1e-5 degree here.  *)
(***************************************************************************)
MaxSelected == 3        \* longest scene list handed to build

HashModulus == 65536    \* the low 16 bits of the 32-bit hash are followed

HashMultiplier == 31

RenderTag == 7          \* the fixed render-parameter tag, as one character

Separator == 0          \* the character between two parts of the string

\* x rounded to 4 decimal degrees, x in 1e-5 degree
roundTo4(x) == (x + 5) \div 10

\* scenes by datetime ascending, scenes of equal datetime in input order
RECURSIVE insertByDatetime(_, _)
insertByDatetime(sorted, scene) ==
    IF sorted = <<>> THEN <<scene>>
    ELSE IF sorted[Len(sorted)].datetime <= scene.datetime THEN Append(sorted, scene)
    ELSE Append(insertByDatetime(SubSeq(sorted, 1, Len(sorted) - 1), scene),
                sorted[Len(sorted)])

RECURSIVE sortLoop(_, _, _)
sortLoop(scenes, k, sorted) ==
    IF k > Len(scenes) THEN sorted
    ELSE sortLoop(scenes, k + 1, insertByDatetime(sorted, scenes[k]))

inputOrder(scenes) == scenes

sortByDatetime(scenes) == sortLoop(scenes, 1, <<>>)

\* the characters of the string that is hashed
keyString(sorted, sensorId, combinedBounds) ==
    <<sensorId, Separator>>
    \o [k \in 1..Len(sorted) |-> sorted[k].datetime]
    \o <<Separator, roundTo4(combinedBounds.west), roundTo4(combinedBounds.south),
         roundTo4(combinedBounds.east), roundTo4(combinedBounds.north),
         Separator, RenderTag>>

RECURSIVE rollingHash(_, _, _)
rollingHash(str, k, h) ==
    IF k > Len(str) THEN h
    ELSE rollingHash(str, k + 1, (h * HashMultiplier + str[k]) % HashModulus)

build(selectedScenes, sensorId) ==
    IF Len(selectedScenes) = 0
    THEN [failed |-> "EmptySceneSet", sceneIds |-> <<>>,
          combinedBounds |-> Box(0, 0, 0, 0), cacheKey |-> 0]
    ELSE LET bounds == calculateCombinedBounds(selectedScenes)
             sorted == sortByDatetime(selectedScenes)
         IN  [failed |-> "no",
              sceneIds |-> [k \in 1..Len(selectedScenes) |-> selectedScenes[k].id],
              combinedBounds |-> bounds,
              cacheKey |-> rollingHash(keyString(sorted, sensorId, bounds), 1, 0)]

\* footprints a few 1e-5 degree apart: some round to the same 4 decimals
JitteredFootprints ==
    {Box(w, 0, e, 100) : w \in {0, 4, 16}, e \in {104, 116}}

SelectableScenes == [datetime : 1..2, bounds : JitteredFootprints]

\* lists of scenes; the id of a scene is its place in the list
SelectedLists ==
    UNION {{[k \in 1..n |-> [id |-> k, datetime |-> l[k].datetime, bounds |-> l[k].bounds]] :
               l \in [1..n -> SelectableScenes]}
           : n \in 0..MaxSelected}

ApplyBuild == call.fn = "build" /\ Return(build(call.a, call.b))

InitDescriptor ==
    /\ SearchNotCalled({"S2Mosaic"}, {0}, {DefaultMaxCandidates})
    /\ ViewerConstructed
    /\ cache = {} /\ invocations = <<>> /\ selector = NoSelector
    /\ \E l \in SelectedLists, sensorId \in {1, 2} :
           call = [fn |-> "build", a |-> l, b |-> sensorId]
    /\ ret = NoReturn

NextDescriptor == ApplyBuild

SpecDescriptor == InitDescriptor /\ [][NextDescriptor]_vars

(***************************************************************************)
(* The layer manager.  A managed layer is the id it is stored under and    *)
(* the way its leaflet layer is drawn, with its zIndex and visible flag    *)
(* kept by id in the stacking field; the map holds the leaflet layers that *)
(* were added to it and not removed.  refreshLayerOrder re-adds the        *)
(* visible managed layers in ascending zIndex, so of two of them with      *)
(* different zIndex the one with the greater zIndex is drawn above.        *)
(***************************************************************************)
\* the branch of addLayer that creates the leaflet layer
imageSource(item) ==
    IF item.collection \in {"landsat-c2-l2", "sentinel-1-grd"} /\ item.renderingInfo
    THEN "titiler"
    ELSE IF item.stacItemUrl /\ item.collection = "sentinel-2-l2a" THEN "titiler"
    ELSE IF item.cogUrl THEN "overlay"
    ELSE "none"

\* Math.max(0, ...zIndex of the managed layers)
highestZIndex(m) ==
    IF DOMAIN m.stacking = {} THEN 0
    ELSE CHOOSE z \in {0} \cup {m.stacking[x].zIndex : x \in DOMAIN m.stacking} :
             \A x \in DOMAIN m.stacking : m.stacking[x].zIndex <= z

\* every managed layer is taken off the map and the visible ones are put back
refreshLayerOrder(m) ==
    [m EXCEPT !.mapLayers =
        (m.mapLayers \ m.layers) \cup {x \in m.layers : m.stacking[x.id].visible}]

\* this.layers.set(layerId, managedLayer) with the highest zIndex plus one;
\* leafletLayer.addTo(this.map); refreshLayerOrder()
setLayer(m, l) ==
    refreshLayerOrder(
        [m EXCEPT !.layers    = {x \in m.layers : x.id # l.id} \cup {l},
                  !.mapLayers = m.mapLayers \cup {l},
                  !.stacking  = (l.id :> [zIndex |-> highestZIndex(m) + 1, visible |-> TRUE])
                                @@ m.stacking,
                  !.thrown    = "none"])

managerAddLayer(m, layerId, item) ==
    IF imageSource(item) = "none"
    THEN [m EXCEPT !.thrown = "No valid image source found for layer"]
    ELSE setLayer(m, [id |-> layerId, source |-> imageSource(item)])

\* a variant that registers the layer before it looks at the list
addMosaicLayerThenCheck(m, layerId, items) ==
    IF Len(items) = 0
    THEN [setLayer(m, [id |-> layerId, source |-> "mosaic"])
             EXCEPT !.thrown = "Cannot create mosaic layer with no items"]
    ELSE IF Len(items) = 1 THEN managerAddLayer(m, layerId, items[1])
    ELSE setLayer(m, [id |-> layerId, source |-> "mosaic"])

addMosaicLayer(m, layerId, items) ==
    IF Len(items) = 0
    THEN [m EXCEPT !.thrown = "Cannot create mosaic layer with no items"]
    ELSE IF Len(items) = 1 THEN managerAddLayer(m, layerId, items[1])
    ELSE setLayer(m, [id |-> layerId, source |-> "mosaic"])

managerRemoveLayer(m, layerId) ==
    [m EXCEPT !.layers    = {x \in m.layers : x.id # layerId},
              !.mapLayers = m.mapLayers \ {x \in m.layers : x.id = layerId},
              !.stacking  = [x \in DOMAIN m.stacking \ {layerId} |-> m.stacking[x]],
              !.thrown    = "none"]

managerRemoveLayers(m) ==
    [m EXCEPT !.layers = {}, !.mapLayers = m.mapLayers \ m.layers, !.stacking = <<>>,
              !.thrown = "none"]

\* the last place of a layer id in a list of panel layers, 0 if it is not in it
lastIndexOf(layerItems, layerId) ==
    IF \E p \in DOMAIN layerItems : layerItems[p].id = layerId
    THEN CHOOSE p \in DOMAIN layerItems :
             /\ layerItems[p].id = layerId
             /\ \A q \in DOMAIN layerItems : layerItems[q].id = layerId => q <= p
    ELSE 0

\* the first item of the list gets the highest zIndex; a managed layer that is
\* not in the list keeps its zIndex
updateLayerOrder(m, layerItems) ==
    refreshLayerOrder(
        [m EXCEPT !.stacking = [x \in DOMAIN m.stacking |->
            IF lastIndexOf(layerItems, x) = 0 THEN m.stacking[x]
            ELSE [m.stacking[x] EXCEPT
                     !.zIndex = Len(layerItems) - lastIndexOf(layerItems, x) + 1]]])

setLayerVisibility(m, layerId, visible) ==
    IF layerId \in DOMAIN m.stacking
    THEN refreshLayerOrder([m EXCEPT !.stacking[layerId].visible = visible])
    ELSE m

Manager == [layers |-> layers, mapLayers |-> mapLayers, stacking |-> stacking,
            thrown |-> "none"]

(***************************************************************************)
(* SpecLayerManager: the public methods of the layer manager, called in    *)
(* any order with any item.  None of them awaits, so each call runs to its *)
(* end in one step.                                                        *)
(***************************************************************************)
MaxLayerIds == 2        \* layer ids range over 1..MaxLayerIds
MaxMosaicItems == 2     \* longest item list handed to addMosaicLayer
MaxZIndex == 3          \* calls that would take a zIndex beyond it are left out

\* what addLayer reads of the STACItem a search packages (a missing or empty
\* string is FALSE): the scenes of the Sentinel-2, Landsat and Sentinel-1
\* searches, and the item of getSentinel1WMS
packaged(sensor) ==
    [collection    |-> IF sensor = "sentinel-2" THEN "sentinel-2-l2a"
                       ELSE IF sensor = "landsat" THEN "landsat-c2-l2"
                       ELSE "sentinel-1-grd",
     renderingInfo |-> sensor \in {"landsat", "sentinel-1-mosaic"},
     stacItemUrl   |-> sensor = "sentinel-2",
     cogUrl        |-> sensor = "sentinel-2"]

PackagedItems ==
    {packaged(sensor) : sensor \in {"sentinel-2", "landsat", "sentinel-1-mosaic", "sentinel-1"}}

\* the state after a call, and how its promise settled
Called(f, a, b, m) ==
    /\ highestZIndex(m) <= MaxZIndex
    /\ call' = [fn |-> f, a |-> a, b |-> b]
    /\ ret' = [done |-> TRUE, value |-> m.thrown]
    /\ layers' = m.layers
    /\ mapLayers' = m.mapLayers
    /\ stacking' = m.stacking
    /\ UNCHANGED <<searchVars, proxyVars, selectorVars, currentAOI, drawings, layerPanel,
                   expandedGroups,
                   message, loadingOverlay, searches>>

CallAddLayer(layerId, item) ==
    Called("addLayer", item, layerId, managerAddLayer(Manager, layerId, item))

CallAddMosaicLayer(layerId, items) ==
    Called("addMosaicLayer", items, layerId, addMosaicLayer(Manager, layerId, items))

CallRemoveLayer(layerId) ==
    Called("removeLayer", 0, layerId, managerRemoveLayer(Manager, layerId))

CallRemoveLayers == Called("removeLayers", 0, 0, managerRemoveLayers(Manager))

\* updateLayerOrder with a list of panel layers, of which only the ids are read
CallUpdateLayerOrder(ids) ==
    Called("updateLayerOrder", ids, 0,
           updateLayerOrder(Manager, [k \in DOMAIN ids |-> [id |-> ids[k]]]))

CallSetLayerVisibility(layerId, visible) ==
    Called("setLayerVisibility", visible, layerId,
           setLayerVisibility(Manager, layerId, visible))

InitLayerManager == InitWith({"S2Mosaic"}, {0}, {DefaultMaxCandidates})

NextLayerManager ==
    \/ \E layerId \in 1..MaxLayerIds, item \in PackagedItems : CallAddLayer(layerId, item)
    \/ \E layerId \in 1..MaxLayerIds,
          items \in UNION {[1..n -> PackagedItems] : n \in 0..MaxMosaicItems} :
           CallAddMosaicLayer(layerId, items)
    \/ \E layerId \in 1..MaxLayerIds : CallRemoveLayer(layerId)
    \/ CallRemoveLayers
    \/ \E ids \in UNION {[1..n -> 1..MaxLayerIds] : n \in 0..MaxLayerIds} :
           CallUpdateLayerOrder(ids)
    \/ \E layerId \in 1..MaxLayerIds, visible \in BOOLEAN :
           CallSetLayerVisibility(layerId, visible)

SpecLayerManager == InitLayerManager /\ [][NextLayerManager]_vars

(***************************************************************************)
(* SpecViewer: the application.  The user draws, edits and clears the area *)
(* of interest and starts searches; the catalog answers the two calls of a *)
(* search in any order; the user confirms or cancels the scene selector.   *)
(* Code that only awaits settled promises runs to its end in one step: no  *)
(* event handler runs between two microtasks.  The handlers test no flag   *)
(* of a running search, so every event is possible at any time.            *)
(***************************************************************************)
MaxSearches == 2        \* activations of handleSearch
MaxDrawings == 2        \* areas drawn or edited
MaxFound == 2           \* most scenes one mosaic search resolves to

CallPending == [state |-> "pending", scenes |-> 0]

\* how a mosaic search call can settle; no scenes is null
CallSettlements ==
    {[state |-> "rejected", scenes |-> 0]}
    \cup {[state |-> "resolved", scenes |-> n] : n \in 0..MaxFound}

Viewer == [panel |-> layerPanel, layers |-> layers, mapLayers |-> mapLayers,
           stacking |-> stacking, thrown |-> "none"]

\* handleLayerChange: an empty panel empties the layer manager
handleLayerChange(v) ==
    IF v.panel = <<>>
    THEN [managerRemoveLayers(v) EXCEPT !.thrown = v.thrown]
    ELSE v

\* layerManager.removeLayers(); layerPanel.clearLayers()
clearLayers(v) == handleLayerChange([managerRemoveLayers(v) EXCEPT !.panel = <<>>])

\* updateLayerOrders of the panel: handleLayerOrderChange hands the list to
\* the layer manager
updateLayerOrders(v) == updateLayerOrder(v, v.panel)

\* LayerPanel.addLayer: the new entry goes to the top
panelAddLayer(v, layerId, group) ==
    handleLayerChange(updateLayerOrders(
        [v EXCEPT !.panel = <<[id |-> layerId, group |-> group, loading |-> TRUE]>> \o @]))

\* LayerPanel.removeLayer
panelRemoveLayer(v, layerId) ==
    handleLayerChange(updateLayerOrders(
        [v EXCEPT !.panel = SelectSeq(@, LAMBDA l : l.id # layerId)]))

\* LayerPanel.setLayerLoading: the first entry with the id
setLayerLoading(v, layerId, loading) ==
    [v EXCEPT !.panel = [p \in DOMAIN @ |->
        IF @[p].id = layerId /\ \A q \in 1..(p - 1) : @[q].id # layerId
        THEN [@[p] EXCEPT !.loading = loading] ELSE @[p]]]

\* a variant that leaves the panel entry of a failed load in place
addImageAsLayerKeepingEntry(v, layerId, item, group) ==
    LET added == panelAddLayer(v, layerId, group)
        m == managerAddLayer(added, layerId, item)
    IN  IF m.thrown = "none" THEN setLayerLoading(m, layerId, FALSE) ELSE m

addImageAsLayer(v, layerId, item, group) ==
    LET added == panelAddLayer(v, layerId, group)
        m == managerAddLayer(added, layerId, item)
    IN  IF m.thrown = "none"
        THEN setLayerLoading(m, layerId, FALSE)
        ELSE [panelRemoveLayer(added, layerId) EXCEPT !.thrown = m.thrown]

\* the two loops of loadScenes over nb before scenes and na after scenes
RECURSIVE loadLoop(_, _, _, _, _, _)
loadLoop(v, s, item, nb, na, k) ==
    IF k > nb + na \/ v.thrown # "none" THEN v
    ELSE LET side == IF k <= nb THEN "Before" ELSE "After"
             n == IF k <= nb THEN k ELSE k - nb
         IN  loadLoop(addImageAsLayer(v, [search |-> s, side |-> side, n |-> n], item,
                                      IF nb > 1 \/ na > 1 THEN side ELSE "none"),
                      s, item, nb, na, k + 1)

\* the loops, then layerManager.updateLayerOrder(layerPanel.getLayers())
loadScenes(v, s, item, nb, na) ==
    LET loaded == loadLoop(v, s, item, nb, na, 1)
    IN  IF loaded.thrown = "none" THEN updateLayerOrders(loaded) ELSE loaded

\* the calls of the searches running at the moment belong to an area that
\* has just been replaced or cleared
abandon(ss) ==
    [k \in DOMAIN ss |->
        IF ss[k].pc = "searching" THEN [ss[k] EXCEPT !.abandoned = TRUE] ELSE ss[k]]

Shown(v) ==
    /\ layerPanel' = v.panel
    /\ layers' = v.layers
    /\ mapLayers' = v.mapLayers
    /\ stacking' = v.stacking

\* L.Draw.Event.CREATED
Draw ==
    /\ drawings < MaxDrawings
    /\ Shown(IF currentAOI # 0 \/ layerPanel # <<>> THEN clearLayers(Viewer) ELSE Viewer)
    /\ drawings' = drawings + 1
    /\ currentAOI' = drawings + 1
    /\ message' = "info"
    /\ searches' = abandon(searches)
    /\ UNCHANGED <<expandedGroups, loadingOverlay, searchVars, helperVars, proxyVars, selectorVars>>

\* L.Draw.Event.EDITED
Edit ==
    /\ currentAOI # 0
    /\ drawings < MaxDrawings
    /\ drawings' = drawings + 1
    /\ currentAOI' = drawings + 1
    /\ message' = "info"
    /\ searches' = abandon(searches)
    /\ UNCHANGED <<layerPanel, layers, mapLayers, stacking, expandedGroups, loadingOverlay,
                   searchVars, helperVars, proxyVars, selectorVars>>

\* the Clear AOI button, or L.Draw.Event.DELETED of the last drawing
ClearAOI ==
    /\ currentAOI # 0
    /\ currentAOI' = 0
    /\ Shown(clearLayers(Viewer))
    /\ message' = "none"
    /\ searches' = abandon(searches)
    /\ UNCHANGED <<drawings, expandedGroups, loadingOverlay, searchVars, helperVars, proxyVars, selectorVars>>

\* the Search button without an area
SearchWithoutAOI ==
    /\ currentAOI = 0
    /\ message' = "error"
    /\ UNCHANGED <<currentAOI, drawings, layerPanel, layers, mapLayers, stacking,
                   expandedGroups, loadingOverlay,
                   searches, searchVars, helperVars, proxyVars, selectorVars>>

\* handleSearch for Sentinel-2 or Landsat, up to the await of the two calls
StartMosaicSearch(sensor) ==
    /\ currentAOI # 0
    /\ Len(searches) < MaxSearches
    /\ loadingOverlay' = TRUE
    /\ message' = "info"
    /\ searches' = Append(searches,
           [sensor |-> sensor, aoi |-> currentAOI, before |-> CallPending,
            after |-> CallPending, pc |-> "searching", said |-> "info",
            abandoned |-> FALSE])
    /\ UNCHANGED <<currentAOI, drawings, layerPanel, layers, mapLayers, stacking,
                   expandedGroups, searchVars,
                   helperVars, proxyVars, selectorVars>>

\* handleSearch for Sentinel-1: searchImagery returns the item of
\* getSentinel1WMS at once, so the handler runs to its end
SearchSentinel1 ==
    /\ currentAOI # 0
    /\ Len(searches) < MaxSearches
    /\ \E v \in {loadScenes(Viewer, Len(searches) + 1, packaged("sentinel-1"), 1, 1)} :
        /\ Shown(v)
        /\ message' = IF v.thrown = "none" THEN "success" ELSE "error"
        /\ searches' = Append(searches,
               [sensor |-> "sentinel-1", aoi |-> currentAOI,
                before |-> [state |-> "resolved", scenes |-> 1],
                after |-> [state |-> "resolved", scenes |-> 1],
                pc |-> IF v.thrown = "none" THEN "loaded" ELSE "failed",
                said |-> IF v.thrown = "none" THEN "success" ELSE "error",
                abandoned |-> FALSE])
    /\ loadingOverlay' = FALSE
    /\ UNCHANGED <<currentAOI, drawings, expandedGroups, searchVars, helperVars, proxyVars, selectorVars>>

\* a variant that goes on as soon as the before call has resolved
joinFirst(b, a) ==
    IF b.state = "rejected" THEN "throw"
    ELSE IF b.state = "pending" THEN "wait"
    ELSE "select"

\* Promise.all over the two calls of a search that is still awaiting them:
\* "wait", "throw" (a rejection, or a null or empty result) or "select"
joinBoth(b, a) ==
    IF b.state = "rejected" \/ a.state = "rejected" THEN "throw"
    ELSE IF b.state = "pending" \/ a.state = "pending" THEN "wait"
    ELSE IF b.scenes = 0 \/ a.scenes = 0 THEN "throw"
    ELSE "select"

\* a variant without the finally block: only the path to the selector hides
\* the overlay
hiddenOnSuccess(next, overlay) ==
    IF next = "select" THEN FALSE ELSE overlay

\* the overlay after handleSearch has gone on: showLoading(false) before the
\* selector is shown, and in the finally block after a throw
hiddenAtEnd(next, overlay) ==
    IF next = "wait" THEN overlay ELSE FALSE

\* one call of a mosaic search settles; handleSearch goes on if it still waits
Settles(s, side, result) ==
    /\ searches[s][side].state = "pending"
    /\ \E after \in {[searches[s] EXCEPT ![side] = result]} :
       \E next \in {IF searches[s].pc = "searching"
                    THEN joinBoth(after.before, after.after) ELSE "wait"} :
        /\ searches' = [searches EXCEPT ![s] =
               IF next = "throw" THEN [after EXCEPT !.pc = "failed", !.said = "error"]
               ELSE IF next = "select" THEN [after EXCEPT !.pc = "selecting"]
               ELSE after]
        /\ message' = IF next = "throw" THEN "error" ELSE message
        /\ loadingOverlay' = hiddenAtEnd(next, loadingOverlay)
    /\ UNCHANGED <<currentAOI, drawings, layerPanel, layers, mapLayers, stacking,
                   expandedGroups, searchVars,
                   helperVars, proxyVars, selectorVars>>

\* onConfirm of the scene selector with nb before and na after scenes selected
Confirm(s, nb, na) ==
    /\ searches[s].pc = "selecting"
    /\ nb <= searches[s].before.scenes
    /\ na <= searches[s].after.scenes
    /\ \E v \in {loadScenes(Viewer, s,
                            packaged(searches[s].sensor), nb, na)} :
        /\ Shown(v)
        /\ message' = IF v.thrown = "none" THEN "success" ELSE "error"
        /\ searches' = [searches EXCEPT
               ![s].pc = IF v.thrown = "none" THEN "loaded" ELSE "failed",
               ![s].said = IF v.thrown = "none" THEN "success" ELSE "error"]
    /\ loadingOverlay' = FALSE
    /\ UNCHANGED <<currentAOI, drawings, expandedGroups, searchVars, helperVars, proxyVars, selectorVars>>

\* onCancel of the scene selector
Cancel(s) ==
    /\ searches[s].pc = "selecting"
    /\ searches' = [searches EXCEPT ![s].pc = "cancelled", ![s].said = "info"]
    /\ message' = "info"
    /\ UNCHANGED <<currentAOI, drawings, layerPanel, layers, mapLayers, stacking,
                   expandedGroups, loadingOverlay,
                   searchVars, helperVars, proxyVars, selectorVars>>

\* the groups of the panel in the order render() finds them
groupOrder(panel) ==
    LET first(p) == /\ panel[p].group # "none"
                    /\ \A q \in 1..(p - 1) : panel[q].group # panel[p].group
        tagged == [p \in DOMAIN panel |-> [group |-> panel[p].group, first |-> first(p)]]
        firsts == SelectSeq(tagged, LAMBDA t : t.first)
    IN  [k \in DOMAIN firsts |-> firsts[k].group]

\* the layers of the named groups that are expanded, group after group
RECURSIVE groupItems(_, _, _)
groupItems(panel, expanded, names) ==
    IF names = <<>> THEN <<>>
    ELSE (IF Head(names) \in expanded
          THEN SelectSeq(panel, LAMBDA l : l.group = Head(names)) ELSE <<>>)
         \o groupItems(panel, expanded, Tail(names))

\* the .layer-item elements render() writes: the layers of the expanded
\* groups, then the ungrouped layers
layerItems(panel, expanded) ==
    groupItems(panel, expanded, groupOrder(panel))
    \o SelectSeq(panel, LAMBDA l : l.group = "none")

\* the delete button of a layer that is rendered (of a group only when the
\* group is expanded)
DeleteLayer(layerId) ==
    /\ \E k \in DOMAIN layerItems(layerPanel, expandedGroups) :
           layerItems(layerPanel, expandedGroups)[k].id = layerId
    /\ Shown(panelRemoveLayer(Viewer, layerId))
    /\ UNCHANGED <<expandedGroups, currentAOI, drawings, message, loadingOverlay, searches,
                   searchVars, helperVars, proxyVars, selectorVars>>

InitViewer == InitWith({"S2Mosaic"}, {0}, {DefaultMaxCandidates})

NextViewer ==
    \/ Draw
    \/ Edit
    \/ ClearAOI
    \/ SearchWithoutAOI
    \/ \E sensor \in {"sentinel-2", "landsat"} : StartMosaicSearch(sensor)
    \/ SearchSentinel1
    \/ \E s \in DOMAIN searches, side \in {"before", "after"}, result \in CallSettlements :
           Settles(s, side, result)
    \/ \E s \in DOMAIN searches, nb \in 1..MaxFound, na \in 1..MaxFound : Confirm(s, nb, na)
    \/ \E s \in DOMAIN searches : Cancel(s)
    \/ \E l \in Range(layerPanel) : DeleteLayer(l.id)

SpecViewer == InitViewer /\ [][NextViewer]_vars

(***************************************************************************)
(* SpecLoading: searches on one area, with the calls of each handleSearch  *)
(* settling sooner or later: a fetch that is pending is settled by the     *)
(* network, so the settling of a search's calls is weakly fair.  The user  *)
(* is under no such obligation: a selector may stay open for ever.         *)
(***************************************************************************)
SettlesSome(s) ==
    /\ s \in DOMAIN searches
    /\ \E side \in {"before", "after"}, result \in CallSettlements : Settles(s, side, result)

NextLoading ==
    \/ currentAOI = 0 /\ Draw
    \/ SearchWithoutAOI
    \/ \E sensor \in {"sentinel-2", "landsat"} : StartMosaicSearch(sensor)
    \/ SearchSentinel1
    \/ \E s \in 1..MaxSearches : SettlesSome(s)
    \/ \E s \in DOMAIN searches, nb \in 1..MaxFound, na \in 1..MaxFound : Confirm(s, nb, na)
    \/ \E s \in DOMAIN searches : Cancel(s)

SpecLoading ==
    /\ InitViewer
    /\ [][NextLoading]_vars
    /\ \A s \in 1..MaxSearches : WF_vars(SettlesSome(s))

(***************************************************************************)
(* SpecPanel: the layer panel in use.  Searches resolve with scenes and    *)
(* are confirmed on one area, which fills the panel with grouped layers;   *)
(* the user expands groups, clears the panel, and drags layers and groups. *)
(* Each panel handler runs to its end in one step, with the callbacks it   *)
(* makes into the application and the layer manager.                       *)
(***************************************************************************)
\* the elements after handleDragStart and the handleDragOver calls of one
\* drag: the dragged element sits where the last dragover put it
dragged(items, from, to) ==
    LET rest == [k \in 1..(Len(items) - 1) |-> IF k < from THEN items[k] ELSE items[k + 1]]
    IN  SubSeq(rest, 1, to - 1) \o <<items[from]>> \o SubSeq(rest, to, Len(rest))

\* handleDrop up to its assignment of this.layers; visibleItems are the
\* .layer-item elements in document order
reorder(panel, visibleItems) ==
    LET find(layerId) == panel[CHOOSE p \in DOMAIN panel :
                                   /\ panel[p].id = layerId
                                   /\ \A q \in 1..(p - 1) : panel[q].id # layerId]
        newVisibleOrder == [k \in DOMAIN visibleItems |-> find(visibleItems[k].id)]
        groupName == newVisibleOrder[1].group
        firstGroupLayerIndex == CHOOSE p \in DOMAIN panel :
                                    /\ panel[p].group = groupName
                                    /\ \A q \in 1..(p - 1) : panel[q].group # groupName
        afterGroupIndex == firstGroupLayerIndex
                           + Len(SelectSeq(panel, LAMBDA l : l.group = groupName))
    IN  IF groupName # "none"
        THEN SubSeq(panel, 1, firstGroupLayerIndex - 1)
             \o SelectSeq(newVisibleOrder, LAMBDA l : l.group = groupName)
             \o SubSeq(panel, afterGroupIndex, Len(panel))
        ELSE newVisibleOrder
             \o SelectSeq(panel, LAMBDA l : \A k \in DOMAIN newVisibleOrder :
                                               newVisibleOrder[k].id # l.id)

RECURSIVE regroup(_, _)
\* the group dragend listener up to its assignment of this.layers; names are
\* the .layer-group elements in document order
regroup(panel, names) ==
    IF names = <<>> THEN SelectSeq(panel, LAMBDA l : l.group = "none")
    ELSE SelectSeq(panel, LAMBDA l : l.group = Head(names)) \o regroup(panel, Tail(names))

\* the Clear All button
ClearAll ==
    /\ layerPanel # <<>>
    /\ Shown(handleLayerChange([Viewer EXCEPT !.panel = <<>>]))
    /\ UNCHANGED <<expandedGroups, currentAOI, drawings, message, loadingOverlay, searches,
                   searchVars, helperVars, proxyVars, selectorVars>>

\* the expand/collapse toggle of a group
ToggleGroup(groupName) ==
    /\ \E k \in DOMAIN layerPanel : layerPanel[k].group = groupName
    /\ expandedGroups' = IF groupName \in expandedGroups
                         THEN expandedGroups \ {groupName}
                         ELSE expandedGroups \cup {groupName}
    /\ UNCHANGED <<layerPanel, layers, mapLayers, stacking, currentAOI, drawings, message,
                   loadingOverlay, searches, searchVars, helperVars, proxyVars, selectorVars>>

\* a layer is dragged from one place of the rendered list to another (or
\* back to its own) and dropped: handleDrop
Drop(from, to) ==
    /\ from \in DOMAIN layerItems(layerPanel, expandedGroups)
    /\ to \in DOMAIN layerItems(layerPanel, expandedGroups)
    /\ Shown(updateLayerOrders(
           [Viewer EXCEPT !.panel =
               reorder(layerPanel, dragged(layerItems(layerPanel, expandedGroups), from, to))]))
    /\ UNCHANGED <<expandedGroups, currentAOI, drawings, message, loadingOverlay, searches,
                   searchVars, helperVars, proxyVars, selectorVars>>

\* the dragend listener of a group element, with the group elements in the
\* order the drag left them in
GroupDragEnd(names) ==
    /\ names # <<>>
    /\ Range(names) = Range(groupOrder(layerPanel))
    /\ Len(names) = Len(groupOrder(layerPanel))
    /\ Shown(updateLayerOrders([Viewer EXCEPT !.panel = regroup(layerPanel, names)]))
    /\ UNCHANGED <<expandedGroups, currentAOI, drawings, message, loadingOverlay, searches,
                   searchVars, helperVars, proxyVars, selectorVars>>

InitPanel == InitWith({"S2Mosaic"}, {0}, {DefaultMaxCandidates})

NextPanel ==
    \/ currentAOI = 0 /\ Draw
    \/ StartMosaicSearch("sentinel-2")
    \/ \E s \in DOMAIN searches, side \in {"before", "after"} :
           Settles(s, side, [state |-> "resolved", scenes |-> MaxFound])
    \/ \E s \in DOMAIN searches : Confirm(s, MaxFound, 1)
    \/ ClearAll
    \/ \E groupName \in {"Before", "After"} : ToggleGroup(groupName)
    \/ \E from \in 1..Len(layerPanel), to \in 1..Len(layerPanel) : Drop(from, to)
    \/ \E names \in {<<"Before">>, <<"After">>, <<"Before", "After">>, <<"After", "Before">>} :
           GroupDragEnd(names)

SpecPanel == InitPanel /\ [][NextPanel]_vars

(***************************************************************************)
(* SpecProxy: the tile proxy (a worker in front of the tile server).  An   *)
(* invocation of its fetch handler stops at `await cache.match`, at `await *)
(* fetch`, and leaves `cache.put` to ctx.waitUntil; invocations overlap,   *)
(* and the edge may drop a cached entry at any time.                       *)
(***************************************************************************)
MaxInvocations == 3     \* requests the proxy receives
MaxUrls == 2            \* distinct proxied URLs

\* a variant that stores whatever the method is
storesAny(method) == TRUE

\* if (request.method === 'GET') before cache.put
storesResponse(method) == method = "GET"

\* the handler up to its first await: preflight, method check, cache key
Receive(method, url) ==
    /\ Len(invocations) < MaxInvocations
    /\ invocations' = Append(invocations,
           [method |-> method, url |-> url, hit |-> "unknown", origin |-> "none",
            put |-> "none",
            pc |-> IF method \in {"GET", "HEAD"} THEN "matching" ELSE "done",
            status |-> IF method = "OPTIONS" THEN 200
                       ELSE IF method \in {"GET", "HEAD"} THEN 0 ELSE 405])
    /\ UNCHANGED <<cache, searchVars, helperVars, viewerVars, selectorVars>>

\* cache.match settles.  A GET key matches exactly when the URL is cached;
\* for a HEAD key the runtime decides whether a cached GET entry answers it.
Match(i, found) ==
    /\ invocations[i].pc = "matching"
    /\ found => invocations[i].url \in cache
    /\ invocations[i].method = "GET" => (found <=> invocations[i].url \in cache)
    /\ invocations' = [invocations EXCEPT ![i] =
           IF found
           THEN [@ EXCEPT !.hit = "hit", !.pc = "done", !.status = 200]
           ELSE [@ EXCEPT !.hit = "miss", !.pc = "fetching"]]
    /\ UNCHANGED <<cache, searchVars, helperVars, viewerVars, selectorVars>>

\* the fetch of the origin settles: a response of some status, or a rejection
OriginSettles(i, status) ==
    /\ invocations[i].pc = "fetching"
    /\ invocations' = [invocations EXCEPT ![i] =
           IF status = 0
           THEN [@ EXCEPT !.origin = "failed", !.pc = "done", !.status = 502]
           ELSE [@ EXCEPT !.origin = "answered", !.pc = "done", !.status = status,
                          !.put = IF storesResponse(invocations[i].method) THEN "pending" ELSE "none"]]
    /\ UNCHANGED <<cache, searchVars, helperVars, viewerVars, selectorVars>>

\* the cache.put handed to ctx.waitUntil settles
PutSettles(i, stored) ==
    /\ invocations[i].put = "pending"
    /\ invocations' = [invocations EXCEPT ![i].put = IF stored THEN "stored" ELSE "rejected"]
    /\ cache' = IF stored THEN cache \cup {invocations[i].url} ELSE cache
    /\ UNCHANGED <<searchVars, helperVars, viewerVars, selectorVars>>

\* the edge drops an entry
Evict(url) ==
    /\ url \in cache
    /\ cache' = cache \ {url}
    /\ UNCHANGED <<invocations, searchVars, helperVars, viewerVars, selectorVars>>

InitProxy == InitWith({"S2Mosaic"}, {0}, {DefaultMaxCandidates})

NextProxy ==
    \/ \E method \in {"GET", "HEAD", "OPTIONS", "POST"}, url \in 1..MaxUrls :
           Receive(method, url)
    \/ \E i \in DOMAIN invocations, found \in BOOLEAN : Match(i, found)
    \/ \E i \in DOMAIN invocations, status \in {0, 200, 500} : OriginSettles(i, status)
    \/ \E i \in DOMAIN invocations, stored \in BOOLEAN : PutSettles(i, stored)
    \/ \E url \in 1..MaxUrls : Evict(url)

SpecProxy == InitProxy /\ [][NextProxy]_vars

(***************************************************************************)
(* SpecSelector: the scene selector.  showSceneSelector opens it with the  *)
(* scenes of the two searches; the user picks scenes on the cards of a     *)
(* tile and confirms or cancels.  A scene is its id and its tileId; a key  *)
(* of the selectedScenes map is the tileId for a before scene and the      *)
(* tileId behind the prefix "after_" for an after scene, kept here as a    *)
(* pair.  The map is kept in insertion order.                              *)
(***************************************************************************)
MaxListed == 2          \* most scenes in the before list and in the after list

\* the scenes the catalog holds: two of one tile and one of another
SceneCatalog ==
    {[id |-> 1, tileId |-> 1], [id |-> 2, tileId |-> 1], [id |-> 3, tileId |-> 2]}

\* what a search can hand to the selector: scenes with distinct ids
CandidateLists ==
    {l \in UNION {[1..n -> SceneCatalog] : n \in 1..MaxListed} :
        \A p, q \in DOMAIN l : p # q => l[p].id # l[q].id}

\* Map.has
hasKey(selected, prefix, tileId) ==
    \E k \in DOMAIN selected : selected[k].prefix = prefix /\ selected[k].tileId = tileId

\* Map.set: a key that is in the map keeps its place
setKey(selected, prefix, tileId, scene) ==
    IF hasKey(selected, prefix, tileId)
    THEN [k \in DOMAIN selected |->
             IF selected[k].prefix = prefix /\ selected[k].tileId = tileId
             THEN [selected[k] EXCEPT !.scene = scene] ELSE selected[k]]
    ELSE Append(selected, [prefix |-> prefix, tileId |-> tileId, scene |-> scene])

\* the first scene of each tile of a list is selected
RECURSIVE autoSelect(_, _, _)
autoSelect(selected, scenes, prefix) ==
    IF scenes = <<>> THEN selected
    ELSE autoSelect(IF hasKey(selected, prefix, Head(scenes).tileId) THEN selected
                    ELSE setKey(selected, prefix, Head(scenes).tileId, Head(scenes)),
                    Tail(scenes), prefix)

showSelectionModal(beforeScenes, afterScenes) ==
    [pc |-> "open", allBeforeScenes |-> beforeScenes, allAfterScenes |-> afterScenes,
     selectedScenes |-> autoSelect(autoSelect(<<>>, beforeScenes, "before"),
                                   afterScenes, "after"),
     selectedBefore |-> <<>>, selectedAfter |-> <<>>]

selectScene(sel, sceneId, tileId, prefix) ==
    LET candidates == IF prefix = "after" THEN sel.allAfterScenes ELSE sel.allBeforeScenes
        found == SelectSeq(candidates, LAMBDA c : c.id = sceneId)
    IN  IF found = <<>> THEN sel
        ELSE [sel EXCEPT !.selectedScenes = setKey(@, prefix, tileId, Head(found))]

\* the filter of onConfirm: the selected scenes whose id is in a list
withIdIn(selectedScenes, items) ==
    SelectSeq(selectedScenes, LAMBDA c : \E k \in DOMAIN items : items[k].id = c.id)

\* showSceneSelector after a search resolved with these scenes
ShowSelectionModal(beforeItems, afterItems) ==
    /\ selector.pc = "none"
    /\ selector' = showSelectionModal(beforeItems, afterItems)
    /\ UNCHANGED <<searchVars, helperVars, viewerVars, proxyVars>>

\* a click on the card of a scene in the carousel of its tile
SelectScene(scene, prefix) ==
    /\ selector.pc = "open"
    /\ \E k \in DOMAIN (IF prefix = "after" THEN selector.allAfterScenes
                        ELSE selector.allBeforeScenes) :
           (IF prefix = "after" THEN selector.allAfterScenes
            ELSE selector.allBeforeScenes)[k] = scene
    /\ selector' = selectScene(selector, scene.id, scene.tileId, prefix)
    /\ UNCHANGED <<searchVars, helperVars, viewerVars, proxyVars>>

\* the confirm button, and onConfirm up to its call of loadScenes
ConfirmSelection ==
    /\ selector.pc = "open"
    /\ \E selectedScenes \in {[k \in DOMAIN selector.selectedScenes |->
                                  selector.selectedScenes[k].scene]} :
       \E selectedBefore \in {withIdIn(selectedScenes, selector.allBeforeScenes)},
          selectedAfter \in {withIdIn(selectedScenes, selector.allAfterScenes)} :
           selector' = IF selectedBefore = <<>> \/ selectedAfter = <<>>
                       THEN [selector EXCEPT !.pc = "rejected"]
                       ELSE [selector EXCEPT !.pc = "confirmed",
                                             !.selectedBefore = selectedBefore,
                                             !.selectedAfter = selectedAfter]
    /\ UNCHANGED <<searchVars, helperVars, viewerVars, proxyVars>>

\* the cancel button, the close button, the background, the escape key
CancelSelection ==
    /\ selector.pc = "open"
    /\ selector' = [selector EXCEPT !.pc = "cancelled"]
    /\ UNCHANGED <<searchVars, helperVars, viewerVars, proxyVars>>

InitSelector == InitWith({"S2Mosaic"}, {0}, {DefaultMaxCandidates})

NextSelector ==
    \/ \E beforeItems \in CandidateLists, afterItems \in CandidateLists :
           ShowSelectionModal(beforeItems, afterItems)
    \/ \E scene \in SceneCatalog, prefix \in {"before", "after"} : SelectScene(scene, prefix)
    \/ ConfirmSelection
    \/ CancelSelection

SpecSelector == InitSelector /\ [][NextSelector]_vars

(***************************************************************************)
(* Properties                                                              *)
(***************************************************************************)
\* open rectangles overlap on both axes; equal coordinates do not count
StrictlyOverlaps(a, s) ==
    a.west < s.east /\ a.east > s.west /\ a.south < s.north /\ a.north > s.south

Encloses(outer, inner) ==
    /\ outer.west <= inner.west /\ outer.east >= inner.east
    /\ outer.south <= inner.south /\ outer.north >= inner.north

\* the scenes the search resolved to
Returned == IF outcome.out = "items" THEN Range(stacItems) ELSE {}

\* C2: Stage C.  When a candidate that survived the AOI-intersection filter
\* contains the AOI, a mosaic search returns at most one scene per UTC
\* calendar date and every returned scene's bounds contain the AOI.
C2_StageC ==
    (/\ pc = "resolved"
     /\ variant \in MosaicVariants
     /\ \E i \in Range(intersectingItems) : Encloses(Item(i).bbox, bbox))
    => /\ \A p, q \in 1..Len(stacItems) :
            p # q => IsoDate(Item(stacItems[p]).t) # IsoDate(Item(stacItems[q]).t)
       /\ \A i \in Range(stacItems) : Encloses(Item(i).bbox, bbox)

\* two containing candidates share a date and one of them was dropped, next
\* to an intersecting candidate that does not contain the AOI
C2_Witness ==
    /\ pc = "resolved"
    /\ variant \in MosaicVariants
    /\ outcome.out = "items"
    /\ Len(containingAOI) > Len(stacItems)
    /\ Len(intersectingItems) > Len(containingAOI)

\* C6: Stage B.  Every scene a search resolves to strictly intersects the
\* exact, unbuffered AOI; a footprint that only overlaps the query buffer or
\* only touches the AOI along an edge is never returned.
C6_ResultIntersectsAOI ==
    \A i \in Returned : StrictlyOverlaps(bbox, Item(i).bbox)

\* scenes were returned while the catalog had also sent a footprint touching
\* the AOI and one overlapping only the buffer
C6_Witness ==
    /\ Returned # {}
    /\ \E i, j \in 1..Len(Features) :
        /\ Item(i).bbox = Touching /\ i \notin Returned
        /\ Item(j).bbox = BufferOnly /\ j \notin Returned

\* C8: when the catalog request fails in transport or comes back with a
\* non-success status, the search rejects with an error; it resolves neither
\* to null nor to a scene list.
C8_BackendFailureRejects ==
    response \in {"transport error", "not ok"}
    => /\ pc = "rejected"
       /\ outcome.out = "error"
       /\ outcome.thrown \in {"fetch failed", "STAC API error"}
       /\ stacItems = <<>>

C8_Witness == response = "not ok" /\ pc = "rejected" /\ outcome.out = "error"

\* C10: a successful answer with zero features, or without a features
\* field, makes every search function resolve to null without an error.
C10_EmptyAnswerIsNull ==
    (/\ response = "json"
     /\ pc # "parsed"
     /\ (~data.hasFeatures \/ Len(data.features) = 0))
    => pc = "resolved" /\ outcome = [out |-> "null", thrown |-> "none"]

\* an answer with an empty features array was reduced
C10_Witness ==
    /\ pc = "resolved"
    /\ response = "json"
    /\ data.hasFeatures
    /\ Len(data.features) = 0
    /\ outcome.out = "null"

\* the scenes of group k among the returned ones, by position in the list
ReturnedOf(k) == {p \in 1..Len(stacItems) : Item(stacItems[p]).key = k}

IntersectingKeys == {Item(i).key : i \in Range(intersectingItems)}

\* a mosaic search resolved and none of its AOI-intersecting candidates
\* contains the AOI
MosaicCase ==
    /\ pc = "resolved"
    /\ variant \in MosaicVariants
    /\ intersectingItems # <<>>
    /\ \A i \in Range(intersectingItems) : ~Encloses(Item(i).bbox, bbox)

\* C1 as stated: Stage D.  When no AOI-intersecting candidate contains the
\* AOI, every group key present among the AOI-intersecting candidates
\* contributes exactly one scene to the returned list.
C1_OnePerGroup ==
    MosaicCase
    => \A k \in IntersectingKeys : Cardinality(ReturnedOf(k)) = 1

\* C1 as amended: when no AOI-intersecting candidate contains the AOI, the
\* scenes a group contributes are exactly those of its first
\* maxCandidatesPerTile ranked candidates that intersect the AOI and, for
\* Sentinel-2, carry a visual asset; each of them is returned once.
C1_TopCandidatesPerGroup ==
    MosaicCase
    => /\ \A p, q \in 1..Len(stacItems) : p # q => stacItems[p] # stacItems[q]
       /\ \A k \in IntersectingKeys :
            LET r == ranked[k]
                limit == IF Len(r) < maxCandidates THEN Len(r) ELSE maxCandidates
                usable == {i \in {r[p] : p \in 1..limit} :
                             /\ StrictlyOverlaps(bbox, Item(i).bbox)
                             /\ variant = "S2Mosaic" => Item(i).visual}
            IN  /\ {stacItems[p] : p \in ReturnedOf(k)} = usable
                /\ Cardinality(ReturnedOf(k)) <= maxCandidates

\* with the default limit one group contributed two scenes and another one
C1_Witness ==
    /\ MosaicCase
    /\ maxCandidates = DefaultMaxCandidates
    /\ \E k \in IntersectingKeys : Cardinality(ReturnedOf(k)) = 2
    /\ \E k \in IntersectingKeys : Cardinality(ReturnedOf(k)) = 1

\* the ranked list of group k as pairs of positions, first before second
RankedPairs(k) ==
    {pq \in (DOMAIN ranked[k]) \X (DOMAIN ranked[k]) : pq[1] < pq[2]}

Distance(i) ==
    IF Item(i).t >= targetDate THEN Item(i).t - targetDate ELSE targetDate - Item(i).t

\* C3: Stage A, date-major rule.  In the ranked list of every group no
\* candidate stands before one that is a day or more closer to the target
\* date.
C3_DateMajor ==
    (pc = "resolved" /\ variant \in MosaicVariants)
    => \A k \in DOMAIN ranked : \A pq \in RankedPairs(k) :
          Distance(ranked[k][pq[1]]) - Distance(ranked[k][pq[2]]) < DayUnits

\* C4: Stage A, tie-break rule.  In the ranked list of a group of an optical
\* sensor no candidate stands before one of lower cloud cover whose distance
\* to the target date differs by less than a day; a Sentinel-1 group is
\* ranked by ascending distance to the target date.
C4_TieBreak ==
    (pc = "resolved" /\ variant \in MosaicVariants)
    => \A k \in DOMAIN ranked : \A pq \in RankedPairs(k) :
          LET a == ranked[k][pq[1]]
              b == ranked[k][pq[2]]
              gap == Distance(a) - Distance(b)
          IN  IF variant = "S1Mosaic"
              THEN gap <= 0
              ELSE (-DayUnits < gap /\ gap < DayUnits)
                   => Item(a).cloud <= Item(b).cloud

\* C5: Stage C.  Among the AOI-containing candidates of one UTC date the
\* scene kept has the minimum cloud cover of that date for an optical
\* sensor, and is the closest to the target date for Sentinel-1.
C5_BestOfDate ==
    (pc = "resolved" /\ variant \in MosaicVariants /\ containingAOI # <<>>)
    => \A i \in Returned : \A j \in Range(containingAOI) :
          IsoDate(Item(i).t) = IsoDate(Item(j).t)
          => IF variant = "S1Mosaic"
             THEN Distance(i) <= Distance(j)
             ELSE Item(i).cloud <= Item(j).cloud

\* C7: malformed records are dropped one by one.  Whatever records of a
\* parsed answer lack bbox or properties.datetime, the search completes
\* without an error and returns well-formed records only.
C7_MalformedDropped ==
    (response = "json" /\ pc # "parsed")
    => /\ pc = "resolved"
       /\ outcome.out # "error"
       /\ \A i \in Returned : Item(i).hasBbox /\ Item(i).hasDatetime

\* C9: when raw candidates exist and none of their footprints intersects the
\* unbuffered AOI, every search variant resolves to null and throws nothing.
C9_NoIntersectionIsNull ==
    (/\ response = "json"
     /\ pc # "parsed"
     /\ Len(Features) > 0
     /\ \A i \in 1..Len(Features) :
            Item(i).hasBbox /\ ~StrictlyOverlaps(bbox, Item(i).bbox))
    => pc = "resolved" /\ outcome = [out |-> "null", thrown |-> "none"]

\* what a helper applied to the arguments of `call` returned
Returns(f) == call.fn = f /\ ret.done

NonDegenerate(b) == b.west < b.east /\ b.south < b.north

\* C18: for every box b with west < east and south < north,
\* bboxesIntersect(b, b) and bboxContains(b, b) are both true.
C18_Reflexive ==
    (/\ Returns("bboxesIntersect") \/ Returns("bboxContains")
     /\ call.a = call.b
     /\ NonDegenerate(call.a))
    => ret.value = TRUE

C18_Witness ==
    /\ Returns("bboxContains")
    /\ call.a = call.b
    /\ NonDegenerate(call.a)
    /\ ret.value = TRUE

\* the bounding box of the points of a ring
RingBox(ring) ==
    LET xs == {ring[k][1] : k \in DOMAIN ring}
        ys == {ring[k][2] : k \in DOMAIN ring}
    IN  Box(CHOOSE x \in xs : \A z \in xs : x <= z,
            CHOOSE y \in ys : \A z \in ys : y <= z,
            CHOOSE x \in xs : \A z \in xs : x >= z,
            CHOOSE y \in ys : \A z \in ys : y >= z)

\* the ring of a box: SW, SE, NE, NW and SW again
RingOf(b) ==
    << <<b.west, b.south>>, <<b.east, b.south>>, <<b.east, b.north>>,
       <<b.west, b.north>>, <<b.west, b.south>> >>

\* C19: the query polygon is the closed 5-point ring of the box moved outward
\* by the buffer on all four sides; with a positive buffer its box contains the
\* original, with buffer 0 it is exactly the ring of the original.
C19_BufferedRing ==
    Returns("bboxToGeometry") =>
        /\ Len(ret.value) = 5
        /\ ret.value[1] = ret.value[5]
        /\ ret.value = RingOf(Box(call.a.west - call.b, call.a.south - call.b,
                                  call.a.east + call.b, call.a.north + call.b))
        /\ call.b > 0 => bboxContains(RingBox(ret.value), call.a)
        /\ call.b = 0 => ret.value = RingOf(call.a)

C19_Witness ==
    /\ Returns("bboxToGeometry")
    /\ call.b > 0
    /\ NonDegenerate(call.a)
    /\ bboxContains(RingBox(ret.value), call.a)
    /\ RingBox(ret.value) # call.a

\* C20: the distance in days between two instants does not depend on their
\* order, is never negative, and is zero between an instant and itself.
C20_Symmetric ==
    Returns("dateDiffDays") =>
        /\ ret.value = dateDiffDays(call.b, call.a)
        /\ ret.value >= 0
        /\ call.a = call.b => ret.value = 0

C20_Witness ==
    /\ Returns("dateDiffDays")
    /\ call.a < call.b
    /\ ret.value = call.b - call.a

\* the lists with the same scenes in another order
Reorderings(items) ==
    {[k \in DOMAIN items |-> items[p[k]]] : p \in Perms(Len(items))}

\* C13: the combined bounds of a non-empty scene list contain the bounds of
\* every scene, each side is that side of some scene, and every reordering of
\* the list gives the same bounds.
C13_Envelope ==
    Returns("calculateCombinedBounds") =>
        /\ \A k \in DOMAIN call.a : bboxContains(ret.value, call.a[k].bounds)
        /\ \E k \in DOMAIN call.a : ret.value.west = call.a[k].bounds.west
        /\ \E k \in DOMAIN call.a : ret.value.south = call.a[k].bounds.south
        /\ \E k \in DOMAIN call.a : ret.value.east = call.a[k].bounds.east
        /\ \E k \in DOMAIN call.a : ret.value.north = call.a[k].bounds.north
        /\ \A other \in Reorderings(call.a) : calculateCombinedBounds(other) = ret.value

C13_Witness ==
    /\ Returns("calculateCombinedBounds")
    /\ Len(call.a) = 3
    /\ \A k \in DOMAIN call.a : ret.value # call.a[k].bounds
    /\ \A k \in DOMAIN call.a : bboxContains(ret.value, call.a[k].bounds)

\* C14: the cache key of a descriptor does not depend on the order in which
\* the scenes are supplied: every reordering of the same scenes with the same
\* sensor id builds the same cacheKey.
C14_KeyOrderIndependent ==
    (Returns("build") /\ ret.value.failed = "no") =>
        \A other \in Reorderings(call.a) :
            /\ build(other, call.b).cacheKey = ret.value.cacheKey
            /\ keyString(sortByDatetime(other), call.b, calculateCombinedBounds(other))
                   = keyString(sortByDatetime(call.a), call.b,
                               calculateCombinedBounds(call.a))

C14_Witness ==
    /\ Returns("build")
    /\ Len(call.a) = 3
    /\ call.a[1].datetime > call.a[2].datetime
    /\ call.a[1].bounds # call.a[3].bounds
    /\ \E other \in Reorderings(call.a) :
          /\ other # call.a
          /\ other[1].datetime < other[3].datetime
          /\ build(other, call.b).cacheKey = ret.value.cacheKey

\* the selected scenes that have the asset rendering reads
Renderable == {i \in Range(finalItems) : Item(i).visual}

\* C16: when the selected scenes are packaged, a scene without a usable
\* rendering asset is left out and the search does not fail: exactly the
\* selected scenes with such an asset are returned, and the result is null only
\* when there is none.
C16_AssetlessDropped ==
    (pc \in {"resolved", "rejected"} /\ finalItems # <<>>) =>
        /\ outcome.out # "error"
        /\ Returned = Renderable
        /\ outcome.out = "null" <=> Renderable = {}

\* C15: addMosaicLayer with an empty item list throws before it touches any
\* state: the call rejects, and the manager's layers and the layers on the map
\* are the same after the call as before it.
C15_EmptyMosaicThrows ==
    [][(call'.fn = "addMosaicLayer" /\ Len(call'.a) = 0) =>
           /\ ret'.value = "Cannot create mosaic layer with no items"
           /\ layers' = layers
           /\ mapLayers' = mapLayers]_vars

C15_Witness ==
    /\ call.fn = "addMosaicLayer"
    /\ Len(call.a) = 0
    /\ ret.value = "Cannot create mosaic layer with no items"
    /\ layers # {}
    /\ mapLayers # {}

\* the layers of search s in the panel, in the layer manager and on the map
LayersOf(s) ==
    {l.id : l \in {x \in Range(layerPanel) : x.id.search = s}}
    \cup {l.id : l \in {x \in layers \cup mapLayers : x.id.search = s}}

\* C11 as stated: once the area is redrawn or cleared while the calls of a
\* search are in flight, those calls are aborted (none stays pending) and no
\* layer of that search is in the layer panel or on the map.
C11_AbandonedSearchCancelled ==
    \A s \in DOMAIN searches :
        searches[s].abandoned =>
            /\ searches[s].before.state # "pending"
            /\ searches[s].after.state # "pending"
            /\ LayersOf(s) = {}

\* C12: the two calls of a search are joined before anything is loaded: a
\* search has layers only if both of its calls resolved with scenes, and a
\* search that learned of a rejected or empty call has no layer and showed an
\* error.
C12_Joined ==
    \A s \in DOMAIN searches :
        LET b == searches[s].before
            a == searches[s].after
            bad(c) == c.state = "rejected" \/ (c.state = "resolved" /\ c.scenes = 0)
        IN  /\ LayersOf(s) # {} =>
                  /\ b.state = "resolved" /\ b.scenes > 0
                  /\ a.state = "resolved" /\ a.scenes > 0
            /\ searches[s].pc \in {"selecting", "loaded"} => ~bad(b) /\ ~bad(a)
            /\ (bad(b) \/ bad(a)) /\ searches[s].pc # "searching" =>
                  /\ searches[s].pc = "failed"
                  /\ searches[s].said = "error"
                  /\ LayersOf(s) = {}

C12_Witness ==
    \E s \in DOMAIN searches :
        /\ searches[s].pc = "failed"
        /\ searches[s].said = "error"
        /\ searches[s].before.state = "resolved"
        /\ searches[s].before.scenes > 0
        /\ searches[s].after.state = "resolved"
        /\ searches[s].after.scenes = 0
        /\ \E t \in DOMAIN searches : searches[t].pc = "loaded" /\ LayersOf(t) # {}

\* C17 as stated: a Sentinel-1 search whose two calls returned an item ends
\* with a Before layer and an After layer of it in the layer panel and in the
\* layer manager and without an error, as long as the area is the one that was
\* searched.
C17_Sentinel1Loads ==
    \A s \in DOMAIN searches :
        (/\ searches[s].sensor = "sentinel-1"
         /\ searches[s].pc \in {"loaded", "failed"}
         /\ searches[s].aoi = currentAOI) =>
            /\ searches[s].said # "error"
            /\ \A side \in {"Before", "After"} :
                  /\ \E l \in Range(layerPanel) : l.id.search = s /\ l.id.side = side
                  /\ \E l \in layers : l.id.search = s /\ l.id.side = side

\* the raw candidates of group k that overlap the AOI
OverlappingOf(k) == {i \in Range(ranked[k]) : StrictlyOverlaps(bbox, Item(i).bbox)}

\* C21 as stated: truncation does not lose coverage.  When no raw candidate
\* contains the AOI, every group with a raw candidate that intersects the AOI
\* has a scene in the result, also when the group has more candidates than the
\* limit.
C21_TruncationKeepsCoverage ==
    (/\ pc = "resolved"
     /\ variant \in MosaicVariants
     /\ \A k \in DOMAIN ranked : \A i \in Range(ranked[k]) : ~Encloses(Item(i).bbox, bbox))
    => \A k \in DOMAIN ranked : OverlappingOf(k) # {} => ReturnedOf(k) # {}

\* the candidates of group k after the truncation, in their order
KeptOf(k) == SelectSeq(allCandidateItems, LAMBDA i : Item(i).key = k)

\* C22: per-group bound.  After Stage A the candidates kept for a group are
\* the first maxCandidates entries of its ranked list, all of them when it has
\* fewer, and no group has more than maxCandidates scenes in the result.
C22_PerGroupBound ==
    (pc = "resolved" /\ variant \in MosaicVariants)
    => \A k \in DOMAIN ranked :
          /\ Len(KeptOf(k)) <= maxCandidates
          /\ KeptOf(k) = SubSeq(ranked[k], 1,
                 IF Len(ranked[k]) < maxCandidates THEN Len(ranked[k]) ELSE maxCandidates)
          /\ Cardinality(ReturnedOf(k)) <= maxCandidates

\* a group of three candidates was cut to one, which was returned
C22_Witness ==
    /\ pc = "resolved"
    /\ variant \in MosaicVariants
    /\ maxCandidates = 1
    /\ \E k \in DOMAIN ranked :
          /\ Len(ranked[k]) = 3
          /\ Len(KeptOf(k)) = 1
          /\ Cardinality(ReturnedOf(k)) = 1

\* C28: the result of a mosaic search is a selection of the raw candidates
\* without duplicates: every returned scene is a feature of the catalog's
\* answer and no feature is returned twice, whether the scenes come from the
\* containment case or from the mosaic case.
C28_DuplicateFreeSelection ==
    (pc = "resolved" /\ variant \in MosaicVariants)
    => /\ \A p \in 1..Len(stacItems) : stacItems[p] \in 1..Len(Features)
       /\ \A p, q \in 1..Len(stacItems) : p # q => stacItems[p] # stacItems[q]

\* two scenes returned from the containment case (two dates)
C28_Witness ==
    /\ pc = "resolved"
    /\ variant \in MosaicVariants
    /\ containingAOI # <<>>
    /\ Len(stacItems) = 2
    /\ stacItems[1] # stacItems[2]

\* C30: the proxy writes to its cache only for a GET that missed the cache
\* and whose origin fetch completed.  A preflight, a HEAD, another method
\* (answered 405) and a failed origin fetch (answered 502) store nothing, a
\* cache hit does not contact the origin, and the cache holds only what such
\* a GET stored.
C30_CacheWrites ==
    /\ \A i \in DOMAIN invocations :
          LET inv == invocations[i]
          IN  /\ inv.put # "none" =>
                    inv.method = "GET" /\ inv.hit = "miss" /\ inv.origin = "answered"
              /\ inv.method \notin {"GET", "HEAD"} =>
                    /\ inv.put = "none" /\ inv.origin = "none" /\ inv.pc = "done"
                    /\ inv.status = IF inv.method = "OPTIONS" THEN 200 ELSE 405
              /\ inv.origin = "failed" => inv.put = "none" /\ inv.status = 502
              /\ inv.hit = "hit" => inv.origin = "none" /\ inv.put = "none"
    /\ cache \subseteq {invocations[i].url : i \in {j \in DOMAIN invocations :
                                                    invocations[j].put = "stored"}}

\* a GET stored its response, a later GET of the URL hit the cache, and a
\* HEAD of the URL went to the origin and stored nothing
C30_Witness ==
    \E i, j, k \in DOMAIN invocations :
        /\ invocations[i].put = "stored"
        /\ invocations[j].hit = "hit" /\ invocations[j].url = invocations[i].url
        /\ invocations[k].method = "HEAD" /\ invocations[k].origin = "answered"
        /\ invocations[k].put = "none"

\* how often a layer id is in a list of panel layers
Occurrences(panel, layerId) == Cardinality({p \in DOMAIN panel : panel[p].id = layerId})

\* a step of handleDrop or of the dragend listener of a group
ReorderStep ==
    \/ \E from \in 1..Len(layerPanel), to \in 1..Len(layerPanel) : Drop(from, to)
    \/ \E names \in {<<"Before">>, <<"After">>, <<"Before", "After">>, <<"After", "Before">>} :
           GroupDragEnd(names)

\* C23 as stated: a layer drop or a group drag end leaves the panel's list a
\* permutation of what it was: every layer is in it as often as before, also
\* when the layers of a group are not next to each other in the list.
C23_ReorderPermutes ==
    [][ReorderStep =>
           /\ Len(layerPanel') = Len(layerPanel)
           /\ \A l \in Range(layerPanel) \cup Range(layerPanel') :
                  Occurrences(layerPanel', l.id) = Occurrences(layerPanel, l.id)]_vars

\* the layer ids of a collection of layers
IdsOf(ls) == {l.id : l \in ls}

\* C25 as stated: the layer manager holds exactly the layers of the panel,
\* and no leaflet layer of a layer that left the panel is on the map (no
\* state is in the middle of a load: addLayer does not await).
C25_PanelAndMapInSync ==
    /\ IdsOf(layers) = IdsOf(Range(layerPanel))
    /\ IdsOf(mapLayers) \subseteq IdsOf(Range(layerPanel))

\* C26 as stated: of two visible managed layers that are in the panel's list,
\* the one nearer the top of the list has the greater zIndex, which is the
\* one refreshLayerOrder draws above the other.
C26_StackingFollowsPanel ==
    \A p, q \in DOMAIN layerPanel :
        (/\ p < q
         /\ layerPanel[p].id # layerPanel[q].id
         /\ layerPanel[p].id \in DOMAIN stacking /\ stacking[layerPanel[p].id].visible
         /\ layerPanel[q].id \in DOMAIN stacking /\ stacking[layerPanel[q].id].visible)
        => stacking[layerPanel[p].id].zIndex > stacking[layerPanel[q].id].zIndex

\* C27: a failed layer load is rolled back.  No panel entry is left in the
\* loading state or without a managed layer, and a search whose load threw
\* (layerManager.addLayer found no image source) has no entry in the panel
\* and showed the error.
C27_FailedLoadRolledBack ==
    /\ \A l \in Range(layerPanel) : ~l.loading /\ l.id \in IdsOf(layers)
    /\ \A s \in DOMAIN searches :
           (searches[s].pc = "failed" /\ searches[s].before.scenes > 0
                                      /\ searches[s].after.scenes > 0
                                      /\ searches[s].before.state = "resolved"
                                      /\ searches[s].after.state = "resolved") =>
               /\ searches[s].said = "error"
               /\ \A l \in Range(layerPanel) : l.id.search # s

\* a load threw while the panel held the layers of an earlier search
C27_Witness ==
    /\ layerPanel # <<>>
    /\ message = "error"
    /\ \E s \in DOMAIN searches :
           /\ searches[s].sensor = "sentinel-1"
           /\ searches[s].pc = "failed"
           /\ searches[s].aoi = currentAOI

\* the ids of the scenes selected on one side of the selector
SelectedOn(prefix) ==
    {selector.selectedScenes[k].scene.id :
        k \in {j \in DOMAIN selector.selectedScenes :
                   selector.selectedScenes[j].prefix = prefix}}

\* C24 as stated: on confirm the scenes handed to loadScenes as Before are
\* exactly the scenes selected on the before side, and those handed over as
\* After exactly the ones selected on the after side, also when the two
\* candidate lists share scene ids.
C24_LoadsTheSelection ==
    selector.pc = "confirmed" =>
        /\ IdsOf(Range(selector.selectedBefore)) = SelectedOn("before")
        /\ IdsOf(Range(selector.selectedAfter)) = SelectedOn("after")

\* C29: the loading overlay never stays on.  It is shown only while some
\* handleSearch is still awaiting its calls, and once those calls settle it is
\* hidden again, whether the search goes on to the selector, finds nothing or
\* fails; a confirmation shows and hides it within the same handler.
C29_OverlayHidden ==
    loadingOverlay ~> ~loadingOverlay

\* the overlay is on only while a search has a call that has not settled
C29_OverlayOnlyWhileSearching ==
    loadingOverlay =>
        \E s \in DOMAIN searches :
            /\ searches[s].pc = "searching"
            /\ "pending" \in {searches[s].before.state, searches[s].after.state}

\* two searches have shown the overlay; one failed on a rejected call, the
\* other was confirmed and loaded, and the overlay is hidden
C29_Witness ==
    /\ ~loadingOverlay
    /\ Len(searches) = MaxSearches
    /\ \E s \in DOMAIN searches : searches[s].pc = "failed" /\ searches[s].before.state = "rejected"
    /\ \E s \in DOMAIN searches : searches[s].pc = "loaded"
====
